---- MODULE Spec2Model ----
(***************************************************************************)
(* Pomodoro menu-bar timer: the two SimpleTimer components (the            *)
(* setInterval version of src/src/components/SimpleTimer.tsx and the       *)
(* requestAnimationFrame version of src/unnamed/part_000) and the settings *)
(* store of src/electron/settings-store.js.                                *)
(*                                                                         *)
(* React: a useState setter queues the new value; the component function   *)
(* runs again later (a render) and only then do the handlers' closures and *)
(* the refs written by effects see it.  A record of a component holds the  *)
(* hook state as queued (focusMinutes, isRunning, remainingMs), what the   *)
(* last render closed over, and the refs.  React renders synchronously at  *)
(* the end of a click; after a timer callback, a promise continuation or a *)
(* window event the render is a later task, so another callback may run    *)
(* first.                                                                  *)
(***************************************************************************)
EXTENDS Integers, Sequences, FiniteSets, TLC

\* null / undefined of a number-valued ref or field (numbers are >= 0 here)
Null == -1

DEFAULT_FOCUS_MINUTES == 25
\* the 60_000 of durationMs = focusMinutes * 60_000
MsPerMinute == 60000

\* ------------------------------------------------------------------ bounds
\* the clock advances while it is below MaxQuanta * Quantum
MaxQuanta == 12
Quantum == MsPerMinute \div 8
MaxNow == MaxQuanta * Quantum
\* the clock advances by one of these (3 or 5 quanta: 22.5 s, 37.5 s), so a
\* deadline is met exactly by some runs and overshot by others
Steps == {3 * Quantum, 5 * Quantum}
\* values of focusMinutes a settings record carries (Null: the field, or the
\* record, is missing); 0 stands for every number below 1
FocusInputs == {Null, 0, 1}
\* handles of window.setInterval / requestAnimationFrame
MaxHandles == 2
Handles == 1..MaxHandles

Min(a, b) == IF a <= b THEN a ELSE b
\* Math.ceil(ms / 1000) of a time in milliseconds (ms >= 0)
Ceil(ms) == (ms + 999) \div 1000
\* the tray has received no tick yet
NoTick == [remainingSec |-> Null, isRunning |-> FALSE]
Max(a, b) == IF a >= b THEN a ELSE b
\* the browser hands out a handle that is not live (the pool is exhausted only
\* if handles leak; the last one then stands for all further ones)
NewHandle(live) ==
  IF Handles \ live = {} THEN MaxHandles
  ELSE CHOOSE h \in Handles \ live : \A g \in Handles \ live : h <= g

\* the timer component
VARIABLES
  now,          \* Date.now() / performance.now()
  impl,         \* which component is mounted: "interval", "raf"
  iv,           \* SimpleTimer.tsx
  rf,           \* part_000
  loadPending,  \* the initial window.settings.getAll() has not settled
  cmd,          \* history: the last command or event handled; a start() is
                \* "restart" on a running timer, "resume" right after a pause()
                \* and "start" otherwise
  startNow,     \* history: the clock when the last start() of an idle timer ran
  startRem      \* history: the remaining time shown at that moment
                \* (both Null once another command than start or pause followed)

timerVars == <<now, impl, iv, rf, loadPending, cmd, startNow, startRem>>

\* the settings store (electron/settings-store.js) and its file system
VARIABLES
  dir,      \* the userData directory exists
  dirent,   \* the directory: name ("final": settings.json, "tmp":
            \* settings.json.tmp) -> inode, or NoInode
  inodes,   \* inode -> the bytes of the file
  calls,    \* the loadSettings / saveSettings / setSetting calls in flight
  solo,     \* the callers queue their calls: one is in flight at a time
  crashed,  \* history: the process was killed and started again
  started,  \* history: the number of calls made so far
  lastRename, \* history: the write whose fs.rename completed last
  lastSave  \* history: the last queued saveSettings / setSetting call

storeVars ==
  <<dir, dirent, inodes, calls, solo, crashed, started, lastRename, lastSave>>

vars == <<timerVars, storeVars>>

Active(i) == impl = i \/ impl = "both"

\* ------------------------------------------- SimpleTimer.tsx (setInterval)

SimpleTimerInit ==
  [ focusMinutes    |-> DEFAULT_FOCUS_MINUTES,
    isRunning       |-> FALSE,
    remainingMs     |-> DEFAULT_FOCUS_MINUTES * MsPerMinute,
    durationMs      |-> DEFAULT_FOCUS_MINUTES * MsPerMinute,  \* of the last render
    endAtRef        |-> Null,
    timerIntervalRef |-> Null,
    remainingMsRef  |-> DEFAULT_FOCUS_MINUTES * MsPerMinute,
    isRunningRef    |-> FALSE,
    lastSentSecRef  |-> Null,
    sent            |-> NoTick,  \* the last window.timer.tick(remainingSec, isRunning)
    intervals       |-> {} ]   \* the window's live setInterval timers

\* a render and its effects: durationMs is recomputed, the refs are synced
render(c) ==
  [c EXCEPT !.durationMs = c.focusMinutes * MsPerMinute,
            !.remainingMsRef = c.remainingMs,
            !.isRunningRef = c.isRunning]

\* mutant: forgets the interval without clearing it
stopTicking_leaks(c) == [c EXCEPT !.timerIntervalRef = Null]

stopTicking(c) ==
  [c EXCEPT !.intervals = IF c.timerIntervalRef # Null THEN @ \ {c.timerIntervalRef} ELSE @,
            !.timerIntervalRef = Null]

computeRemainingMs(c, t) ==
  IF c.endAtRef = Null THEN c.remainingMsRef ELSE Max(0, c.endAtRef - t)

\* mutant: resumes from the full duration instead of the snapshot
start_fromFull(c, t) ==
  IF c.isRunningRef THEN c
  ELSE LET c1 == [c EXCEPT !.endAtRef = t + c.durationMs, !.isRunning = TRUE]
           c2 == stopTicking(c1)
           id == NewHandle(c2.intervals)
       IN  [c2 EXCEPT !.timerIntervalRef = id, !.intervals = @ \cup {id}]

start(c, t) ==
  IF c.isRunningRef THEN c
  ELSE LET c1 == [c EXCEPT !.endAtRef = t + computeRemainingMs(c, t), !.isRunning = TRUE]
           c2 == stopTicking(c1)
           id == NewHandle(c2.intervals)
       IN  [c2 EXCEPT !.timerIntervalRef = id, !.intervals = @ \cup {id}]

\* mutant: counts the interval's 200 ms down instead of reading the clock
intervalCallback_countsDown(c, t) ==
  LET left == Max(0, c.remainingMs - 200)
      c1 == [c EXCEPT !.remainingMs = left]
  IN  IF left <= 0
      THEN [stopTicking([c1 EXCEPT !.endAtRef = Null]) EXCEPT !.isRunning = FALSE]
      ELSE c1

\* the callback start() gives to setInterval
intervalCallback(c, t) ==
  LET left == computeRemainingMs(c, t)
      c1 == [c EXCEPT !.remainingMs = left]
  IN  IF left <= 0
      THEN [stopTicking([c1 EXCEPT !.endAtRef = Null]) EXCEPT !.isRunning = FALSE]
      ELSE c1

\* mutant: leaves the deadline in place
pause_keepsDeadline(c, t) ==
  IF ~c.isRunningRef THEN c
  ELSE LET left == computeRemainingMs(c, t)
       IN  [stopTicking(c) EXCEPT !.remainingMs = left, !.isRunning = FALSE]

pause(c, t) ==
  IF ~c.isRunningRef THEN c
  ELSE LET left == computeRemainingMs(c, t)
       IN  [stopTicking(c) EXCEPT !.endAtRef = Null, !.remainingMs = left, !.isRunning = FALSE]

reset(c) ==
  [stopTicking(c) EXCEPT !.endAtRef = Null, !.isRunning = FALSE, !.remainingMs = c.durationMs]

\* the continuation of the initial getAll(); v is s?.focusMinutes
initialLoad(c, v) ==
  LET mins == Max(1, IF v = Null THEN DEFAULT_FOCUS_MINUTES ELSE v)
  IN  [c EXCEPT !.focusMinutes = mins, !.remainingMs = mins * MsPerMinute]

settingsHandler_keepsRunning(c, v) ==
  LET mins == Max(1, IF v = Null THEN DEFAULT_FOCUS_MINUTES ELSE v)
  IN  [c EXCEPT !.focusMinutes = mins, !.remainingMs = mins * MsPerMinute]

\* the settings:changed listener; v is e.detail?.focusMinutes
settingsHandler(c, v) ==
  LET mins == Max(1, IF v = Null THEN DEFAULT_FOCUS_MINUTES ELSE v)
  IN  [stopTicking(c) EXCEPT !.endAtRef = Null, !.lastSentSecRef = Null,
                             !.isRunning = FALSE,
                             !.focusMinutes = mins, !.remainingMs = mins * MsPerMinute]

\* the callback of the 250 ms tray interval: reads the refs of the last render
trayCallback(c) ==
  LET remainingSec == Ceil(c.remainingMsRef)
  IN  IF c.lastSentSecRef = remainingSec THEN c
      ELSE [c EXCEPT !.lastSentSecRef = remainingSec,
                     !.sent = [remainingSec |-> remainingSec, isRunning |-> c.isRunningRef]]

\* ------------------------------------ part_000 (requestAnimationFrame)

RafTimerInit ==
  [ focusMinutes |-> DEFAULT_FOCUS_MINUTES,
    isRunning    |-> FALSE,
    remainingMs  |-> DEFAULT_FOCUS_MINUTES * MsPerMinute,
    \* what the handlers of the last render closed over
    cIsRunning   |-> FALSE,
    cRemainingMs |-> DEFAULT_FOCUS_MINUTES * MsPerMinute,
    durationMs   |-> DEFAULT_FOCUS_MINUTES * MsPerMinute,
    endAtRef     |-> Null,
    rafRef       |-> Null,
    \* the tray effect of the first render has sent the initial tick
    lastSentRef  |-> Ceil(DEFAULT_FOCUS_MINUTES * MsPerMinute),
    sent         |-> [remainingSec |-> Ceil(DEFAULT_FOCUS_MINUTES * MsPerMinute),
                      isRunning |-> FALSE],
    frames       |-> {} ]   \* the window's pending animation-frame requests

\* send() of the tray effect, closed over the render's remainingMs / isRunning
send(c) ==
  LET remainingSec == Ceil(c.cRemainingMs)
  IN  IF c.lastSentRef = remainingSec THEN c
      ELSE [c EXCEPT !.lastSentRef = remainingSec,
                     !.sent = [remainingSec |-> remainingSec, isRunning |-> c.cIsRunning]]

\* a render and its effects: the tray effect runs when isRunning or
\* remainingMs differ from the last render's
rafRender(c) ==
  LET c1 == [c EXCEPT !.cIsRunning = c.isRunning,
                      !.cRemainingMs = c.remainingMs,
                      !.durationMs = c.focusMinutes * MsPerMinute]
  IN  IF c.isRunning # c.cIsRunning \/ c.remainingMs # c.cRemainingMs
      THEN send(c1) ELSE c1

stopLoop(c) ==
  [c EXCEPT !.frames = IF c.rafRef # Null THEN @ \ {c.rafRef} ELSE @,
            !.rafRef = Null]

requestAnimationFrame(c) ==
  LET id == NewHandle(c.frames)
  IN  [c EXCEPT !.rafRef = id, !.frames = @ \cup {id}]

\* mutant: at the deadline shows 0 but keeps running
tick_keepsRunning(c, t) ==
  IF c.endAtRef = Null THEN c
  ELSE LET left == c.endAtRef - t
       IN  IF left <= 0
           THEN requestAnimationFrame([c EXCEPT !.remainingMs = 0])
           ELSE requestAnimationFrame([c EXCEPT !.remainingMs = left])

\* the frame callback of startLoop; the request that fired is gone already
tick(c, t) ==
  IF c.endAtRef = Null THEN c
  ELSE LET left == c.endAtRef - t
       IN  IF left <= 0
           THEN [stopLoop([c EXCEPT !.remainingMs = 0]) EXCEPT !.endAtRef = Null, !.isRunning = FALSE]
           ELSE requestAnimationFrame([c EXCEPT !.remainingMs = left])

startLoop(c) == requestAnimationFrame(c)

\* mutant: no early return when already running
rafStart_noGuard(c, t) ==
  startLoop([c EXCEPT !.endAtRef = t + c.cRemainingMs, !.isRunning = TRUE])

rafStart(c, t) ==
  IF c.cIsRunning THEN c
  ELSE startLoop([c EXCEPT !.endAtRef = t + c.cRemainingMs, !.isRunning = TRUE])

\* mutant: stops without taking the snapshot
rafPause_noSnapshot(c, t) ==
  IF ~c.cIsRunning THEN c
  ELSE [stopLoop([c EXCEPT !.isRunning = FALSE]) EXCEPT !.endAtRef = Null]

rafPause(c, t) ==
  IF ~c.cIsRunning THEN c
  ELSE LET c1 == stopLoop([c EXCEPT !.isRunning = FALSE])
           left == (IF c1.endAtRef = Null THEN t ELSE c1.endAtRef) - t
       IN  [c1 EXCEPT !.remainingMs = Max(0, left), !.endAtRef = Null]

rafReset(c) ==
  [stopLoop([c EXCEPT !.isRunning = FALSE]) EXCEPT !.endAtRef = Null, !.remainingMs = c.durationMs]

\* v is s?.focusMinutes; a missing or 0 value is falsy and changes nothing
rafInitialLoad(c, v) ==
  IF v = Null \/ v = 0 THEN c
  ELSE LET mins == Max(1, v)
       IN  [c EXCEPT !.focusMinutes = mins, !.remainingMs = mins * MsPerMinute]

rafSettingsHandler(c, v) ==
  LET mins == Max(1, IF v = Null THEN DEFAULT_FOCUS_MINUTES ELSE v)
  IN  [stopLoop([c EXCEPT !.focusMinutes = mins, !.isRunning = FALSE])
         EXCEPT !.endAtRef = Null, !.remainingMs = mins * MsPerMinute]

\* ------------------------------------------ electron/settings-store.js

DEFAULT_SETTINGS ==
  [ focusMinutes       |-> 25,
    shortBreakMinutes  |-> 5,
    longBreakMinutes   |-> 15,
    longBreakEvery     |-> 4,
    autoStartBreaks    |-> FALSE,
    autoStartPomodoros |-> FALSE,
    soundEnabled       |-> TRUE ]

\* the keys whose values are booleans; "volume" is a field the program does
\* not know, the others are numbers
BoolKeys == {"autoStartBreaks", "autoStartPomodoros", "soundEnabled"}

\* the valid range of each numeric setting (SettingsModal.validate)
Limits ==
  [ focusMinutes      |-> <<1, 240>>,
    shortBreakMinutes |-> <<1, 60>>,
    longBreakMinutes  |-> <<1, 120>>,
    longBreakEvery    |-> <<1, 12>> ]

\* {}
EmptyObj == [k \in {} |-> 0]

\* { ...a, ...b }
Merge(a, b) == [k \in DOMAIN a \cup DOMAIN b |-> IF k \in DOMAIN b THEN b[k] ELSE a[k]]

\* the length of JSON.stringify(obj, null, 2): "{}" for no key, else "{\n",
\* one line of two spaces, the quoted key, ": " and the value per key, ",\n"
\* between the lines, and "\n}"
KeyLen ==
  [ focusMinutes |-> 12, shortBreakMinutes |-> 17, longBreakMinutes |-> 16,
    longBreakEvery |-> 14, autoStartBreaks |-> 15, autoStartPomodoros |-> 18,
    soundEnabled |-> 12, volume |-> 6 ]

ValueLen(k, v) ==
  IF k \in BoolKeys THEN (IF v THEN 4 ELSE 5)
  ELSE IF v < 10 THEN 1 ELSE IF v < 100 THEN 2 ELSE 3

RECURSIVE LinesLen(_, _)
LinesLen(obj, keys) ==
  IF keys = {} THEN 0
  ELSE LET k == CHOOSE x \in keys : TRUE
       IN  2 + (KeyLen[k] + 2) + 2 + ValueLen(k, obj[k]) + 2 + LinesLen(obj, keys \ {k})

TextLen(obj) == IF DOMAIN obj = {} THEN 2 ELSE 2 + LinesLen(obj, DOMAIN obj)

\* The bytes of a file: the JSON text at its start (json: there is one, obj:
\* what it parses to) and the total length.  The file parses iff the text is
\* all there is.
NoBytes == [json |-> FALSE, obj |-> EmptyObj, len |-> 0]

\* JSON.stringify(data, null, 2)
Stringify(data) == [json |-> TRUE, obj |-> data, len |-> TextLen(data)]

\* a file that is not JSON (written by something else than this program)
Garbage == [json |-> FALSE, obj |-> EmptyObj, len |-> 1]

\* write(fd, text) at offset 0 into a file holding `bytes`
Overwrite(bytes, text) ==
  [json |-> TRUE, obj |-> text.obj, len |-> Max(bytes.len, text.len)]

Parses(bytes) == bytes.json /\ bytes.len = TextLen(bytes.obj)

NoInode == 0
MaxCalls == 2
MaxStarted == 3
Procs == 1..MaxCalls
\* final, tmp, and a file each call may still hold open after it was renamed over
Inodes == 1..(MaxCalls + 2)

\* the partial records the callers save
Partials ==
  { [focusMinutes |-> 30],
    [soundEnabled |-> FALSE, volume |-> 7] }

TmpName_inPlace == "final"

\* the name writeJsonAtomic writes to: `${filePath}.tmp`
TmpName == "tmp"

\* null, or the object JSON.parse returned
NoValue == [ok |-> FALSE, obj |-> EmptyObj]

\* what is at the final path: nothing, or a file and its bytes
NoFile == [there |-> FALSE, bytes |-> NoBytes]
File(bytes) == [there |-> TRUE, bytes |-> bytes]

\* a call: where it stands (pc), the operation, its locals (partial, merged,
\* the data of the write under way and whether loadSettings or saveSettings
\* makes it, the open file), what was at the final path when its write began,
\* and how it settled (ret, value)
IdleCall ==
  [ pc |-> "idle", op |-> "none", partial |-> EmptyObj, merged |-> EmptyObj,
    data |-> EmptyObj, phase |-> "none", fd |-> NoInode,
    before |-> NoFile, ret |-> "none", value |-> EmptyObj,
    form |-> FALSE ]   \* SettingsModal.save awaits this call

NoCrash == [is |-> FALSE, left |-> NoFile]

\* a queued save: the record loadSettings would have returned when it was
\* called (prev), its partial, and whether it has resolved
NoSave == [prev |-> EmptyObj, partial |-> EmptyObj, ok |-> FALSE]

\* a completed rename: the function that wrote (phase) and its data
NoRename == [phase |-> "none", data |-> EmptyObj]

\* what a reader of path `name` gets: absent, or the bytes
Exists(name) == dirent[name] # NoInode
BytesAt(name) == IF Exists(name) THEN inodes[dirent[name]] ELSE NoBytes

\* readJsonSafe: null when readFile or JSON.parse throws
readJsonSafe(name) ==
  IF Exists(name) /\ Parses(BytesAt(name))
  THEN [ok |-> TRUE, obj |-> BytesAt(name).obj]
  ELSE NoValue

\* inodes no name and no open file refers to are freed
Referenced(d, cs) == {d[n] : n \in DOMAIN d} \cup {cs[p].fd : p \in Procs}
Collect(ino, d, cs) ==
  [i \in Inodes |-> IF i \in Referenced(d, cs) THEN ino[i] ELSE NoBytes]
FreeInode(d, cs) ==
  CHOOSE i \in Inodes \ Referenced(d, cs) : \A j \in Inodes \ Referenced(d, cs) : i <= j

\* ----------------------------------------------------------------- actions

Init ==
  /\ now = 0
  /\ impl \in {"interval", "raf"}
  /\ iv = SimpleTimerInit
  /\ rf = RafTimerInit
  /\ loadPending = TRUE
  /\ cmd = "none"
  /\ startNow = Null
  /\ startRem = Null
  /\ dir = FALSE
  /\ dirent = [n \in {"final", "tmp"} |-> NoInode]
  /\ inodes = [i \in Inodes |-> NoBytes]
  /\ calls = [p \in Procs |-> IdleCall]
  /\ solo = TRUE
  /\ crashed = NoCrash
  /\ started = 0
  /\ lastRename = NoRename
  /\ lastSave = NoSave

\* the hook state of the mounted component, and its deadline
IsRunning == IF Active("interval") THEN iv.isRunning ELSE rf.isRunning
RemainingMs == IF Active("interval") THEN iv.remainingMs ELSE rf.remainingMs
FocusMinutes == IF Active("interval") THEN iv.focusMinutes ELSE rf.focusMinutes
EndAt == IF Active("interval") THEN iv.endAtRef ELSE rf.endAtRef
DurationMs == FocusMinutes * MsPerMinute
\* the remaining time of the last render: what is on screen, and what start()
\* reads for an idle timer (remainingMsRef, the closure's remainingMs)
ShownRemainingMs == IF Active("interval") THEN iv.remainingMsRef ELSE rf.cRemainingMs

StartCmds == {"start", "resume", "restart"}

Record(c) ==
  LET fresh == c = "start" /\ ~IsRunning
      keep == cmd \in StartCmds /\ IsRunning /\ c \in {"start", "pause"}
  IN  /\ cmd' = IF c # "start" THEN c
                ELSE IF IsRunning THEN "restart"
                ELSE IF cmd = "pause" THEN "resume" ELSE "start"
      /\ startNow' = IF fresh THEN now ELSE IF keep THEN startNow ELSE Null
      /\ startRem' = IF fresh THEN ShownRemainingMs ELSE IF keep THEN startRem ELSE Null

\* a click on Start: the handler, then React's synchronous render
Start ==
  /\ iv' = IF Active("interval") THEN render(start(iv, now)) ELSE iv
  /\ rf' = IF Active("raf") THEN rafRender(rafStart(rf, now)) ELSE rf
  /\ Record("start")
  /\ UNCHANGED <<now, impl, loadPending>>
  /\ UNCHANGED storeVars

Pause ==
  /\ iv' = IF Active("interval") THEN render(pause(iv, now)) ELSE iv
  /\ rf' = IF Active("raf") THEN rafRender(rafPause(rf, now)) ELSE rf
  /\ Record("pause")
  /\ UNCHANGED <<now, impl, loadPending>>
  /\ UNCHANGED storeVars

Reset ==
  /\ iv' = IF Active("interval") THEN render(reset(iv)) ELSE iv
  /\ rf' = IF Active("raf") THEN rafRender(rafReset(rf)) ELSE rf
  /\ Record("reset")
  /\ UNCHANGED <<now, impl, loadPending>>
  /\ UNCHANGED storeVars

\* a live interval timer fires
TickInterval ==
  /\ Active("interval")
  /\ iv.timerIntervalRef \in iv.intervals
  /\ iv' = intervalCallback(iv, now)
  /\ UNCHANGED <<now, impl, rf, loadPending, cmd, startNow, startRem>>
  /\ UNCHANGED storeVars

\* a pending animation frame fires
TickRaf ==
  /\ Active("raf")
  /\ \E id \in rf.frames :
       rf' = tick([rf EXCEPT !.frames = @ \ {id}], now)
  /\ UNCHANGED <<now, impl, iv, loadPending, cmd, startNow, startRem>>
  /\ UNCHANGED storeVars

\* React runs the render a callback left pending
Render ==
  /\ iv' = IF Active("interval") THEN render(iv) ELSE iv
  /\ rf' = IF Active("raf") THEN rafRender(rf) ELSE rf
  /\ <<iv', rf'>> # <<iv, rf>>
  /\ UNCHANGED <<now, impl, loadPending, cmd, startNow, startRem>>
  /\ UNCHANGED storeVars

RenderPending ==
  \/ Active("interval") /\ render(iv) # iv
  \/ Active("raf") /\ rafRender(rf) # rf

\* the initial getAll() resolves with a record whose focusMinutes is v
LoadDone ==
  /\ loadPending
  /\ \E v \in FocusInputs :
       /\ iv' = IF Active("interval") THEN initialLoad(iv, v) ELSE iv
       /\ rf' = IF Active("raf") THEN rafInitialLoad(rf, v) ELSE rf
  /\ loadPending' = FALSE
  /\ Record("load")
  /\ UNCHANGED <<now, impl>>
  /\ UNCHANGED storeVars

\* the initial getAll() rejects: the catch block ignores it
LoadFailed ==
  /\ loadPending
  /\ loadPending' = FALSE
  /\ UNCHANGED <<now, impl, iv, rf, cmd, startNow, startRem>>
  /\ UNCHANGED storeVars

\* clamp = (n, min, max) => Math.min(max, Math.max(min, n))
clamp(n, min, max) == Min(max, Max(min, n))

\* SettingsModal.validate: the numeric fields of the form, clamped
validate(form) ==
  [k \in DOMAIN form |->
     IF k \in DOMAIN Limits THEN clamp(form[k], Limits[k][1], Limits[k][2]) ELSE form[k]]

\* what the user typed into the focus minutes field of the settings form
FormInputs == {0, 2}

\* SettingsModal.save after setAll(validate(form)) resolved with the saved
\* record: emitSettingsChanged(saved) runs the settings:changed listener
FormSaved(f) ==
  /\ LET saved == Merge(DEFAULT_SETTINGS, validate([focusMinutes |-> f]))
     IN  /\ iv' = IF Active("interval") THEN settingsHandler(iv, saved.focusMinutes) ELSE iv
         /\ rf' = IF Active("raf") THEN rafSettingsHandler(rf, saved.focusMinutes) ELSE rf
  /\ Record("saved")
  /\ UNCHANGED <<now, impl, loadPending>>
  /\ UNCHANGED storeVars

\* a settings:changed event whose detail.focusMinutes is v
SettingsChanged ==
  /\ \E v \in FocusInputs :
       /\ iv' = IF Active("interval") THEN settingsHandler(iv, v) ELSE iv
       /\ rf' = IF Active("raf") THEN rafSettingsHandler(rf, v) ELSE rf
  /\ Record("settings")
  /\ UNCHANGED <<now, impl, loadPending>>
  /\ UNCHANGED storeVars

\* the wall clock advances; a pending render has run by then
Advance ==
  /\ ~RenderPending
  /\ \E d \in Steps :
       /\ now < MaxNow
       /\ now' = now + d
  /\ UNCHANGED <<impl, iv, rf, loadPending, cmd, startNow, startRem>>
  /\ UNCHANGED storeVars

Next ==
  \/ Start \/ Pause \/ Reset
  \/ TickInterval \/ TickRaf \/ Render
  \/ LoadDone \/ LoadFailed \/ SettingsChanged
  \/ \E f \in FormInputs : FormSaved(f)
  \/ Advance

Spec == Init /\ [][Next]_vars

\* setInterval fires every 200 ms and an animation frame every frame (main.js
\* sets backgroundThrottling: false), React runs a pending render, time passes
Fairness ==
  /\ WF_vars(TickInterval)
  /\ WF_vars(TickRaf)
  /\ WF_vars(Render)
  /\ WF_vars(Advance)

LiveSpec == Spec /\ Fairness

\* the component is unmounted: the cleanup effects run, the listeners and
\* the buttons are gone
Mounted == impl # "none"

Unmount ==
  /\ Mounted
  /\ impl' = "none"
  /\ iv' = IF Active("interval") THEN stopTicking(iv) ELSE iv
  /\ rf' = IF Active("raf") THEN stopLoop(rf) ELSE rf
  /\ UNCHANGED <<now, loadPending, cmd, startNow, startRem>>
  /\ UNCHANGED storeVars

\* the timer from mount to unmount
MountNext ==
  \/ Mounted /\ Start
  \/ Mounted /\ Pause
  \/ Mounted /\ Reset
  \/ Mounted /\ TickInterval
  \/ Mounted /\ TickRaf
  \/ Mounted /\ Render
  \/ Mounted /\ LoadDone
  \/ Mounted /\ LoadFailed
  \/ Mounted /\ SettingsChanged
  \/ Mounted /\ \E f \in FormInputs : FormSaved(f)
  \/ Mounted /\ Advance
  \/ Unmount

MountSpec == Init /\ [][MountNext]_vars

\* both components, mounted side by side and given the same clicks, the
\* same settings:changed events and the same clock, each ticking on its own;
\* the initial getAll() has settled without changing anything
BothInit ==
  /\ now = 0
  /\ impl = "both"
  /\ iv = SimpleTimerInit
  /\ rf = RafTimerInit
  /\ loadPending = FALSE
  /\ cmd = "none"
  /\ startNow = Null
  /\ startRem = Null
  /\ dir = FALSE
  /\ dirent = [n \in {"final", "tmp"} |-> NoInode]
  /\ inodes = [i \in Inodes |-> NoBytes]
  /\ calls = [p \in Procs |-> IdleCall]
  /\ solo = TRUE
  /\ crashed = NoCrash
  /\ started = 0
  /\ lastRename = NoRename
  /\ lastSave = NoSave

BothNext ==
  \/ Start \/ Pause \/ Reset
  \/ TickInterval \/ TickRaf \/ Render
  \/ SettingsChanged
  \/ Advance

BothSpec == BothInit /\ [][BothNext]_vars

\* the 250 ms interval of the tray effect of SimpleTimer.tsx fires
TrayInterval ==
  /\ Active("interval")
  /\ iv' = trayCallback(iv)
  /\ UNCHANGED <<now, impl, rf, loadPending, cmd, startNow, startRem>>
  /\ UNCHANGED storeVars

\* the 1 s interval the tray effect of part_000 sets while running fires
TrayRaf ==
  /\ Active("raf")
  /\ rf.cIsRunning
  /\ rf' = send(rf)
  /\ UNCHANGED <<now, impl, iv, loadPending, cmd, startNow, startRem>>
  /\ UNCHANGED storeVars

\* the timer with its tray updates, from the moment the initial getAll() has
\* settled without changing anything (LoadFailed)
TrayInit ==
  /\ now = 0
  /\ impl \in {"interval", "raf"}
  /\ iv = SimpleTimerInit
  /\ rf = RafTimerInit
  /\ loadPending = FALSE
  /\ cmd = "none"
  /\ startNow = Null
  /\ startRem = Null
  /\ dir = FALSE
  /\ dirent = [n \in {"final", "tmp"} |-> NoInode]
  /\ inodes = [i \in Inodes |-> NoBytes]
  /\ calls = [p \in Procs |-> IdleCall]
  /\ solo = TRUE
  /\ crashed = NoCrash
  /\ started = 0
  /\ lastRename = NoRename
  /\ lastSave = NoSave

TrayNext ==
  \/ Start \/ Pause \/ Reset
  \/ TickInterval \/ TickRaf \/ Render
  \/ \E f \in FormInputs : FormSaved(f)
  \/ Advance
  \/ TrayInterval \/ TrayRaf

TraySpec == TrayInit /\ [][TrayNext]_vars

\* ----------------------------------------------------- the store's actions

\* the files the program may find when it starts: none (with or without the
\* directory), the defaults, a record of an older version, something that is
\* not JSON
OldRecord == [focusMinutes |-> 50, volume |-> 3]
InitialFiles ==
  { NoFile, File(Stringify(DEFAULT_SETTINGS)), File(Stringify(OldRecord)),
    File(Stringify(EmptyObj)), File(Garbage) }

StoreInit ==
  /\ now = 0
  /\ impl = "interval"
  /\ iv = SimpleTimerInit
  /\ rf = RafTimerInit
  /\ loadPending = TRUE
  /\ cmd = "none"
  /\ startNow = Null
  /\ startRem = Null
  /\ solo \in BOOLEAN
  /\ \E f \in InitialFiles :
       /\ dir \in (IF f.there THEN {TRUE} ELSE BOOLEAN)
       /\ dirent = [n \in {"final", "tmp"} |-> IF n = "final" /\ f.there THEN 1 ELSE NoInode]
       /\ inodes = [i \in Inodes |-> IF i = 1 THEN f.bytes ELSE NoBytes]
  /\ calls = [p \in Procs |-> IdleCall]
  /\ crashed = NoCrash
  /\ started = 0
  /\ lastRename = NoRename
  /\ lastSave = NoSave

FinalFile == IF Exists("final") THEN File(BytesAt("final")) ELSE NoFile

\* the call settles: its locals are gone
Resolve(c, v) ==
  [IdleCall EXCEPT !.op = c.op, !.ret = "ok", !.value = v, !.form = c.form]
Reject(c) == [IdleCall EXCEPT !.op = c.op, !.ret = "err", !.form = c.form]

\* writeJsonAtomic(filePath, data) is entered; `final` is what is at filePath
writeJsonAtomic(c, phase, data, final) ==
  [c EXCEPT !.pc = "mkdir", !.phase = phase, !.data = data, !.before = final]

loadReturned_dropsCurrent(c, final) ==
  IF c.op = "load" THEN Resolve(c, c.merged)
  ELSE writeJsonAtomic(c, "save", Merge(DEFAULT_SETTINGS, c.partial), final)

\* loadSettings returned merged: to the caller, or to saveSettings, which
\* merges the partial over it and writes
loadReturned(c, final) ==
  IF c.op = "load" THEN Resolve(c, c.merged)
  ELSE writeJsonAtomic(c, "save", Merge(c.merged, c.partial), final)

loadSettings_defaultsWin(c, existing, final) ==
  LET merged == Merge(existing.obj, DEFAULT_SETTINGS)
      d == [c EXCEPT !.merged = merged]
  IN  IF ~existing.ok THEN writeJsonAtomic(d, "load", merged, final)
      ELSE loadReturned(d, final)

\* loadSettings after readJsonSafe returned existing
loadSettings(c, existing, final) ==
  LET merged == Merge(DEFAULT_SETTINGS, existing.obj)
      d == [c EXCEPT !.merged = merged]
  IN  IF ~existing.ok THEN writeJsonAtomic(d, "load", merged, final)
      ELSE loadReturned(d, final)

\* setSetting(key, value): saveSettings({ [key]: value })
setSetting(key, value) == [k \in {key} |-> value]
SetInputs == { <<"focusMinutes", 5>>, <<"focusMinutes", 500>> }

Idle(p) == calls[p].pc = "idle"
MayCall(p) ==
  /\ Idle(p) /\ (solo => \A q \in Procs : Idle(q))
  /\ started < MaxStarted
  /\ started' = started + 1

Settle(cs) ==
  /\ calls' = cs
  /\ crashed' = IF \E p \in Procs : ~Idle(p) /\ cs[p].pc = "idle"
                 THEN [crashed EXCEPT !.is = FALSE] ELSE crashed

\* the effective record: what loadSettings returns for the file as it is
Effective == Merge(DEFAULT_SETTINGS, readJsonSafe("final").obj)

Queued(partial) ==
  lastSave' = IF solo THEN [prev |-> Effective, partial |-> partial, ok |-> FALSE]
              ELSE lastSave

\* settings:get -> loadSettings()
CallLoad(p) ==
  /\ MayCall(p)
  /\ calls' = [calls EXCEPT ![p] = [IdleCall EXCEPT !.pc = "read", !.op = "load"]]
  /\ UNCHANGED <<dir, dirent, inodes, solo, crashed, lastRename, lastSave>>
  /\ UNCHANGED timerVars

\* settings:setAll -> saveSettings(partial)
CallSave(p) ==
  /\ MayCall(p)
  /\ \E partial \in Partials :
       /\ calls' = [calls EXCEPT ![p] =
                      [IdleCall EXCEPT !.pc = "read", !.op = "save", !.partial = partial]]
       /\ Queued(partial)
  /\ UNCHANGED <<dir, dirent, inodes, solo, crashed, lastRename>>
  /\ UNCHANGED timerVars

\* settings:set -> setSetting(key, value)
CallSet(p) ==
  /\ MayCall(p)
  /\ \E kv \in SetInputs :
       /\ calls' = [calls EXCEPT ![p] =
                      [IdleCall EXCEPT !.pc = "read", !.op = "save",
                                       !.partial = setSetting(kv[1], kv[2])]]
       /\ Queued(setSetting(kv[1], kv[2]))
  /\ UNCHANGED <<dir, dirent, inodes, solo, crashed, lastRename>>
  /\ UNCHANGED timerVars

\* readJsonSafe settles and loadSettings runs up to its next await
ReadFile(p) ==
  /\ calls[p].pc = "read"
  /\ Settle([calls EXCEPT ![p] = loadSettings(@, readJsonSafe("final"), FinalFile)])
  /\ UNCHANGED <<dir, dirent, inodes, solo, started, lastRename, lastSave>>
  /\ UNCHANGED timerVars

\* ensureDirExists: fs.mkdir(dir, { recursive: true })
Mkdir(p) ==
  /\ calls[p].pc = "mkdir"
  /\ dir' = TRUE
  /\ calls' = [calls EXCEPT ![p].pc = "open"]
  /\ UNCHANGED <<dirent, inodes, solo, crashed, started, lastRename, lastSave>>
  /\ UNCHANGED timerVars

\* fs.writeFile(tmp, json) opens tmp: the file of that name is truncated, or
\* a new one is created
OpenTmp(p) ==
  /\ calls[p].pc = "open"
  /\ LET i == IF Exists(TmpName) THEN dirent[TmpName] ELSE FreeInode(dirent, calls)
     IN  /\ dirent' = [dirent EXCEPT ![TmpName] = i]
         /\ inodes' = [inodes EXCEPT ![i] = NoBytes]
         /\ calls' = [calls EXCEPT ![p].pc = "write", ![p].fd = i]
  /\ UNCHANGED <<dir, solo, crashed, started, lastRename, lastSave>>
  /\ UNCHANGED timerVars

\* fs.writeFile writes the text into the file it opened, and closes it
WriteTmp(p) ==
  /\ calls[p].pc = "write"
  /\ calls' = [calls EXCEPT ![p].pc = "rename", ![p].fd = NoInode]
  /\ inodes' = Collect([inodes EXCEPT ![calls[p].fd] = Overwrite(@, Stringify(calls[p].data))],
                       dirent, calls')
  /\ UNCHANGED <<dir, dirent, solo, crashed, started, lastRename, lastSave>>
  /\ UNCHANGED timerVars

\* fs.rename(tmp, filePath): ENOENT when there is no tmp; then the caller of
\* writeJsonAtomic goes on
Rename(p) ==
  /\ calls[p].pc = "rename"
  /\ IF ~Exists(TmpName)
     THEN /\ Settle([calls EXCEPT ![p] = Reject(@)])
          /\ UNCHANGED <<dirent, inodes, lastRename, lastSave>>
     ELSE LET d == [n \in DOMAIN dirent |->
                      IF n = "final" THEN dirent[TmpName]
                      ELSE IF n = TmpName THEN NoInode ELSE dirent[n]]
              c == calls[p]
              cs == [calls EXCEPT ![p] =
                       IF c.phase = "load" THEN loadReturned(c, File(inodes[d["final"]]))
                       ELSE Resolve(c, c.data)]
          IN  /\ dirent' = d
              /\ Settle(cs)
              /\ inodes' = Collect(inodes, d, cs)
              /\ lastRename' = [phase |-> c.phase, data |-> c.data]
              /\ lastSave' = IF solo /\ cs[p].pc = "idle" /\ c.op = "save"
                              THEN [lastSave EXCEPT !.ok = TRUE] ELSE lastSave
  /\ UNCHANGED <<dir, solo, started>>
  /\ UNCHANGED timerVars

\* the text fs.writeFile had written when it failed: nothing, or a part
PartLens == {0, 2}
PartWritten(bytes, n) ==
  IF n = 0 THEN bytes ELSE [json |-> FALSE, obj |-> EmptyObj, len |-> Max(bytes.len, n)]

\* the fs call p awaits inside writeJsonAtomic (mkdir, writeFile, rename)
\* rejects (EACCES, ENOSPC, ...): writeJsonAtomic throws, and so does its
\* caller
Fail(p) ==
  /\ calls[p].pc \in {"mkdir", "open", "write", "rename"}
  /\ Settle([calls EXCEPT ![p] = Reject(@)])
  /\ \E n \in PartLens :
       /\ calls[p].pc # "write" => n = 0
       /\ inodes' = Collect(IF calls[p].pc = "write"
                            THEN [inodes EXCEPT ![calls[p].fd] = PartWritten(@, n)]
                            ELSE inodes,
                            dirent, calls')
  /\ UNCHANGED <<dir, dirent, solo, started, lastRename, lastSave>>
  /\ UNCHANGED timerVars

\* the process is killed while calls are in flight, and started again
Crash ==
  /\ \E p \in Procs : ~Idle(p)
  /\ calls' = [p \in Procs |-> IdleCall]
  /\ inodes' = Collect(inodes, dirent, calls')
  /\ crashed' = [is |-> TRUE, left |-> FinalFile]
  /\ lastSave' = NoSave
  /\ UNCHANGED <<dir, dirent, solo, started, lastRename>>
  /\ UNCHANGED timerVars

StoreNext ==
  \/ \E p \in Procs :
       \/ CallLoad(p) \/ CallSave(p) \/ CallSet(p)
       \/ ReadFile(p) \/ Mkdir(p) \/ OpenTmp(p) \/ WriteTmp(p) \/ Rename(p)
       \/ Fail(p)
  \/ Crash

StoreSpec == StoreInit /\ [][StoreNext]_vars

\* the form of SettingsModal: its initial record
DEFAULTS == DEFAULT_SETTINGS

\* SettingsModal.save up to its await: window.settings.setAll(validate(form))
\* -> saveSettings; f is what the focus minutes field holds
FormCall(p, f) ==
  /\ MayCall(p)
  /\ ~calls[p].form
  /\ LET next == validate([DEFAULTS EXCEPT !.focusMinutes = f])
     IN  /\ calls' = [calls EXCEPT ![p] =
                        [IdleCall EXCEPT !.pc = "read", !.op = "save",
                                         !.partial = next, !.form = TRUE]]
         /\ Queued(next)
  /\ UNCHANGED <<dir, dirent, inodes, solo, crashed, lastRename>>
  /\ UNCHANGED timerVars

\* mutant: emits the notification whether or not setAll resolved
FormContinue_emitsAlways(p) ==
  /\ calls[p].pc = "idle" /\ calls[p].form
  /\ calls' = [calls EXCEPT ![p].form = FALSE]
  /\ LET v == IF calls[p].ret = "ok" THEN calls[p].value.focusMinutes ELSE Null
     IN  /\ iv' = IF Active("interval") THEN settingsHandler(iv, v) ELSE iv
         /\ rf' = IF Active("raf") THEN rafSettingsHandler(rf, v) ELSE rf
  /\ Record("saved")
  /\ UNCHANGED <<now, impl, loadPending>>
  /\ UNCHANGED <<dir, dirent, inodes, solo, crashed, started, lastRename, lastSave>>

\* SettingsModal.save after its await: emitSettingsChanged(saved) dispatches
\* the event, whose listener runs at once; a rejection goes to the catch,
\* which only sets the form's error
FormContinue(p) ==
  /\ calls[p].pc = "idle" /\ calls[p].form
  /\ calls' = [calls EXCEPT ![p].form = FALSE]
  /\ IF calls[p].ret = "ok"
     THEN /\ LET saved == calls[p].value
             IN  /\ iv' = IF Active("interval")
                          THEN settingsHandler(iv, saved.focusMinutes) ELSE iv
                 /\ rf' = IF Active("raf")
                          THEN rafSettingsHandler(rf, saved.focusMinutes) ELSE rf
          /\ Record("saved")
     ELSE UNCHANGED <<iv, rf, cmd, startNow, startRem>>
  /\ UNCHANGED <<now, impl, loadPending>>
  /\ UNCHANGED <<dir, dirent, inodes, solo, crashed, started, lastRename, lastSave>>

\* the settings form, the store behind it and the timer in the same window:
\* the form's saves are the only calls
FormInit ==
  /\ now = 0
  /\ impl \in {"interval", "raf"}
  /\ iv = SimpleTimerInit
  /\ rf = RafTimerInit
  /\ loadPending = FALSE
  /\ cmd = "none"
  /\ startNow = Null
  /\ startRem = Null
  /\ solo = TRUE
  /\ \E f \in InitialFiles :
       /\ dir \in (IF f.there THEN {TRUE} ELSE BOOLEAN)
       /\ dirent = [n \in {"final", "tmp"} |-> IF n = "final" /\ f.there THEN 1 ELSE NoInode]
       /\ inodes = [i \in Inodes |-> IF i = 1 THEN f.bytes ELSE NoBytes]
  /\ calls = [p \in Procs |-> IdleCall]
  /\ crashed = NoCrash
  /\ started = 0
  /\ lastRename = NoRename
  /\ lastSave = NoSave

FormNext ==
  \/ Start \/ Pause \/ Reset \/ Render
  \/ \E p \in Procs :
       \/ \E f \in FormInputs : FormCall(p, f)
       \/ ReadFile(p) \/ Mkdir(p) \/ OpenTmp(p) \/ WriteTmp(p) \/ Rename(p)
       \/ Fail(p)
       \/ FormContinue(p)

FormSpec == FormInit /\ [][FormNext]_vars

\* the store while no fs call fails and the process is not killed
NoFaultNext ==
  \E p \in Procs :
    \/ CallLoad(p) \/ CallSave(p) \/ CallSet(p)
    \/ ReadFile(p) \/ Mkdir(p) \/ OpenTmp(p) \/ WriteTmp(p) \/ Rename(p)

NoFaultSpec == StoreInit /\ [][NoFaultNext]_vars

\* fs.readFile rejects for another reason than a missing file (EACCES,
\* EMFILE, EIO): the catch of readJsonSafe returns null all the same
ReadFails(p) ==
  /\ calls[p].pc = "read"
  /\ Settle([calls EXCEPT ![p] = loadSettings(@, NoValue, FinalFile)])
  /\ UNCHANGED <<dir, dirent, inodes, solo, started, lastRename, lastSave>>
  /\ UNCHANGED timerVars

\* the store with queued calls and reads that may fail
FaultInit == StoreInit /\ solo

FaultNext == StoreNext \/ \E p \in Procs : ReadFails(p)

FaultSpec == FaultInit /\ [][FaultNext]_vars

\* ------------------------------------------------------------------ claims

Tick == TickInterval \/ TickRaf

\* spec 4.1 currentRemainingMs(): from the deadline while there is one, else
\* the snapshot
CurrentRemainingMs == IF EndAt # Null THEN Max(0, EndAt - now) ELSE RemainingMs

\* C1: in every reachable state isRunning is true iff a deadline (endAt) is
\* present.
C1_RunningIffDeadline == IsRunning <=> (EndAt # Null)

\* the initial load settled while the timer was running
C1_Witness == IsRunning /\ EndAt # Null /\ cmd = "load" /\ now > 0 /\ now < EndAt

\* C2: in every reachable state 0 <= remainingMs <= durationMs, with
\* durationMs = focusMinutes * 60000.
C2_RemainingWithinDuration == 0 <= RemainingMs /\ RemainingMs <= DurationMs

\* C3: a tick that runs once the clock has reached or passed the deadline
\* leaves the timer not running with remaining time exactly 0; with ticks
\* scheduled fairly a running timer whose deadline the clock can reach
\* expires unless it is paused, reset or stopped by a settings change; the
\* remaining time is never negative.
C3_ExpiryStep ==
  [][(Tick /\ EndAt # Null /\ now >= EndAt)
       => (~IsRunning' /\ RemainingMs' = 0 /\ EndAt' = Null)]_vars

Expired == ~IsRunning /\ EndAt = Null /\ RemainingMs = 0

C3_EventuallyExpires ==
  (IsRunning /\ EndAt # Null /\ EndAt <= MaxNow)
    ~> (Expired \/ cmd \in {"pause", "reset", "settings", "saved"})

C3_NeverNegative == [](RemainingMs >= 0 /\ CurrentRemainingMs >= 0)

C3_Expiry == C3_ExpiryStep /\ C3_EventuallyExpires /\ C3_NeverNegative

C3_Witness == Expired /\ cmd \in StartCmds /\ startNow # Null /\ now > startNow + startRem

C5_ResumePreserves ==
  [][(Start /\ cmd = "pause")
       => (IsRunning' /\ EndAt' = now + RemainingMs /\ CurrentRemainingMs' = RemainingMs)]_vars

C5_Witness ==
  cmd = "resume" /\ IsRunning /\ 0 < CurrentRemainingMs /\ CurrentRemainingMs < DurationMs

\* C6: start() of a timer showing remaining time d, then pause() after the
\* clock advanced by delta < d, leaves remaining time d - delta and the timer
\* not running, whatever ticks ran in between.
C6_StartThenPause ==
  [][(Pause /\ cmd \in StartCmds /\ IsRunning /\ startNow # Null /\ now - startNow < startRem)
       => (RemainingMs' = startRem - (now - startNow) /\ ~IsRunning' /\ EndAt' = Null)]_vars

C6_Witness ==
  /\ cmd = "pause" /\ ~IsRunning /\ startNow # Null
  /\ startRem = DurationMs /\ 0 < RemainingMs /\ RemainingMs < startRem

\* C7: a tick sets the remaining time to max(0, deadline - now) and never
\* changes what currentRemainingMs() returns: only the clock does.
C7_TickReadsClock ==
  [][Tick => (/\ EndAt # Null => RemainingMs' = Max(0, EndAt - now)
              /\ CurrentRemainingMs' = CurrentRemainingMs)]_vars

\* a tick ran after the clock advanced twice or more since the start
C7_Witness ==
  /\ IsRunning /\ cmd = "start" /\ startNow # Null
  /\ now - startNow > 5 * Quantum
  /\ RemainingMs = EndAt - now /\ RemainingMs = startRem - (now - startNow)

\* C8: reset leaves the timer not running, without a deadline and with
\* remaining time equal to the full duration: the unchanged durationMs after
\* reset(), the new duration after a settings change.
C8_ResetFull ==
  [][(Reset => (/\ ~IsRunning' /\ EndAt' = Null
                /\ FocusMinutes' = FocusMinutes
                /\ RemainingMs' = DurationMs'))
     /\ (SettingsChanged => (/\ ~IsRunning' /\ EndAt' = Null
                             /\ RemainingMs' = DurationMs'))]_vars

\* C9: whatever calls overlap, the file at the final path is absent, or is
\* one complete record (or the file the program found when it started, which
\* no call wrote).
C9_FinalNeverTorn ==
  Exists("final") => (Parses(BytesAt("final")) \/ BytesAt("final") = Garbage)

\* C10: when the process is killed after a write's temporary file was
\* written and before its rename, no other call being in flight, the final
\* path holds what it held when the write began, absent or one complete
\* record; the first loadSettings() after the restart reads that record and
\* resolves with the defaults overlaid by it (with the defaults, when it
\* resolves, if there was none).
C10_CrashBeforeRename ==
  [][(Crash /\ solo)
       => \A p \in Procs : calls[p].pc = "rename"
            => (/\ FinalFile' = calls[p].before
                /\ crashed'.left = calls[p].before
                /\ TmpName # "final" => Exists(TmpName)')]_vars

C10_LoadAfterCrash ==
  [][\A p \in Procs :
       (solo /\ crashed.is /\ calls[p].op = "load" /\ ~Idle(p) /\ calls'[p].pc = "idle" /\ ~Crash)
         => IF crashed.left.there /\ Parses(crashed.left.bytes)
            THEN /\ calls'[p].ret = "ok"
                 /\ calls'[p].value = Merge(DEFAULT_SETTINGS, crashed.left.bytes.obj)
                 /\ FinalFile' = crashed.left
            ELSE calls'[p].ret = "ok" => calls'[p].value = DEFAULT_SETTINGS]_vars

C10_CrashLeavesFinalIntact == C10_CrashBeforeRename /\ C10_LoadAfterCrash

\* a write of a changed record was killed before its rename, and the load
\* after the restart returned the older record the final path still holds
C10_Witness ==
  /\ solo /\ ~crashed.is /\ crashed.left = File(Stringify(OldRecord))
  /\ FinalFile = crashed.left
  /\ Exists(TmpName) /\ Parses(BytesAt(TmpName)) /\ BytesAt(TmpName) # BytesAt("final")
  /\ \E p \in Procs :
       /\ calls[p].op = "load" /\ calls[p].ret = "ok"
       /\ calls[p].value = Merge(DEFAULT_SETTINGS, OldRecord)

\* C11: once two saveSettings calls have both settled, the final path holds
\* exactly the record of the save whose rename completed last.
C11_LastRenameWins ==
  ( /\ \A p \in Procs : calls[p].op = "save" /\ Idle(p) /\ calls[p].ret # "none"
    /\ lastRename.phase = "save" )
    => FinalFile = File(Stringify(lastRename.data))

\* a loadSettings call of p settles in this step
LoadSettles(p) ==
  calls[p].op = "load" /\ ~Idle(p) /\ calls'[p].pc = "idle" /\ calls'[p].op = "load"

\* C12: with calls made one after the other, a loadSettings that follows a
\* resolved saveSettings(partial) or setSetting(key, value) resolves with the
\* record loadSettings would have returned before the save, unknown fields
\* of the file included, overlaid by the partial ({key: value} for set).
C12_SaveThenLoad ==
  [][\A p \in Procs :
       (LoadSettles(p) /\ solo /\ lastSave.ok)
         => (/\ calls'[p].ret = "ok"
             /\ calls'[p].value = Merge(lastSave.prev, lastSave.partial))]_vars

\* the file held a field the program does not know and another focusMinutes
C12_Witness ==
  /\ solo /\ lastSave.ok /\ lastSave.partial = [focusMinutes |-> 30]
  /\ lastSave.prev = Merge(DEFAULT_SETTINGS, OldRecord)
  /\ \E p \in Procs :
       /\ calls[p].op = "load" /\ calls[p].ret = "ok"
       /\ "volume" \in DOMAIN calls[p].value
       /\ calls[p].value.focusMinutes = 30 /\ calls[p].value.volume = 3
       /\ calls[p].value.soundEnabled

\* C13: a loadSettings that found no file at the final path resolves with
\* exactly the seven defaults, and when it returns the final path holds a
\* file with those defaults.
C13_LoadCreatesDefaults ==
  [][\A p \in Procs :
       (LoadSettles(p) /\ calls[p].pc = "rename" /\ calls[p].before = NoFile
          /\ calls'[p].ret = "ok")
         => (/\ calls'[p].value = DEFAULT_SETTINGS
             /\ FinalFile' = File(Stringify(DEFAULT_SETTINGS)))]_vars

\* C14: a loadSettings that read a stored record resolves with the stored
\* value for each key of the record and the default for each other key.
C14_LoadMergesOverDefaults ==
  [][\A p \in Procs :
       (LoadSettles(p) /\ calls[p].pc = "read" /\ Exists("final") /\ Parses(BytesAt("final")))
         => LET stored == BytesAt("final").obj
                got == calls'[p].value
            IN  /\ calls'[p].ret = "ok"
                /\ DOMAIN got = DOMAIN DEFAULT_SETTINGS \cup DOMAIN stored
                /\ \A k \in DOMAIN stored : got[k] = stored[k]
                /\ \A k \in DOMAIN DEFAULT_SETTINGS \ DOMAIN stored :
                     got[k] = DEFAULT_SETTINGS[k]]_vars

\* the file of an older version, still as it was, has been loaded
C14_Witness ==
  /\ FinalFile = File(Stringify(OldRecord))
  /\ \E p \in Procs :
       /\ calls[p].op = "load" /\ calls[p].ret = "ok"
       /\ calls[p].value = Merge(DEFAULT_SETTINGS, OldRecord)
       /\ calls[p].value.focusMinutes = 50 /\ calls[p].value.longBreakEvery = 4

\* C15: a loadSettings that found the file absent or unparseable settles by
\* resolving with the defaults, never by rejecting, also when it settles
\* inside the write of the defaults.
C15_LoadNeverRaises ==
  [][\A p \in Procs :
       (LoadSettles(p) /\ calls[p].phase = "load")
         => (calls'[p].ret = "ok" /\ calls'[p].value = DEFAULT_SETTINGS)]_vars

\* an fs call inside a write of saveSettings / setSetting call p fails
SaveWriteFails(p) ==
  calls[p].op = "save" /\ (Fail(p) \/ (Rename(p) /\ ~Exists(TmpName)))

\* C16: when an fs call of a write made for saveSettings or setSetting fails,
\* the call rejects, and the file at the final path is not changed: it is
\* what it was when the write began if no other call is in flight.
C16_SaveFailurePropagates ==
  [][\A p \in Procs :
       SaveWriteFails(p)
         => (/\ calls'[p].pc = "idle" /\ calls'[p].ret = "err"
             /\ FinalFile' = FinalFile
             /\ solo => FinalFile' = calls[p].before)]_vars

\* C17: whatever was written through settings:setAll and settings:set, each
\* numeric setting of the persisted record lies within its valid range.
C17_PersistedWithinLimits ==
  (Exists("final") /\ Parses(BytesAt("final")))
    => \A k \in DOMAIN Limits \cap DOMAIN BytesAt("final").obj :
         /\ Limits[k][1] <= BytesAt("final").obj[k]
         /\ BytesAt("final").obj[k] <= Limits[k][2]

\* C18: when the settings form has been saved with f in its focus minutes
\* field, the change notification leaves the timer not running, without a
\* deadline, with focusMinutes the saved value (f brought into 1..240, so at
\* least one minute) and remainingMs = durationMs = focusMinutes * 60000,
\* whatever state the timer was in.
C18_SavedFormResetsTimer ==
  [][\A f \in FormInputs :
       FormSaved(f)
         => LET mins == IF f < 1 THEN 1 ELSE IF f > 240 THEN 240 ELSE f
            IN  /\ ~IsRunning' /\ EndAt' = Null
                /\ FocusMinutes' = mins /\ mins >= 1
                /\ DurationMs' = mins * 60000
                /\ RemainingMs' = DurationMs']_vars

\* the form was saved while the timer was running: the component on screen
\* has not re-rendered yet
C18_Witness ==
  /\ cmd = "saved" /\ ~IsRunning /\ EndAt = Null
  /\ FocusMinutes = 2 /\ RemainingMs = 120000
  /\ now > 0
  /\ IF Active("interval") THEN iv.isRunningRef ELSE rf.cIsRunning

\* the last tick the tray was sent
Sent == IF Active("interval") THEN iv.sent ELSE rf.sent

\* the tick the tray holds once the tray update has had its turn: the 250 ms
\* tray interval of SimpleTimer.tsx has fired again; in part_000 the tray
\* effect has run with the render already
SentAfterUpdate == IF Active("interval") THEN trayCallback(iv).sent ELSE rf.sent

\* C19: once the timer has come to rest (not running, nothing left to
\* render) after a pause, a reset, an expiry or a settings-driven reset, the
\* tick the tray holds after its update carries the timer's running state
\* (paused) and remainingSec = ceil(remainingMs / 1000): the tray marker does
\* not stay stale.
C19_TrayFollowsTimer ==
  (~IsRunning /\ ~RenderPending)
    => SentAfterUpdate = [remainingSec |-> Ceil(RemainingMs), isRunning |-> FALSE]

\* a step in which a tick was sent to the tray
SendsTick ==
  \/ Active("interval") /\ iv'.lastSentSecRef # iv.lastSentSecRef
                        /\ iv'.lastSentSecRef # Null
  \/ Active("raf") /\ rf'.lastSentRef # rf.lastSentRef

\* C20: every tick sent to the tray carries remainingSec =
\* ceil(currentRemainingMs() / 1000), the remaining time computed from the
\* deadline at the moment of sending (stated for the sends of a component
\* that had nothing left to render).
C20_SentSecondsFromDeadline ==
  [][(~RenderPending /\ SendsTick)
       => Sent'.remainingSec = Ceil(CurrentRemainingMs')]_vars

\* C21: pause() on a timer that is not running changes nothing: isRunning,
\* the (absent) deadline, remainingMs and durationMs are what they were; this
\* covers the second of two pause() calls in a row.
C21_PauseIdleNoOp ==
  [][(Pause /\ ~IsRunning)
       => /\ IsRunning' = IsRunning /\ EndAt' = EndAt
          /\ RemainingMs' = RemainingMs /\ DurationMs' = DurationMs]_vars

\* a record is stored at the final path
RecordStored == Exists("final") /\ Parses(BytesAt("final"))

\* C22: loadSettings (called from outside or by saveSettings) goes on to
\* write if and only if no record is stored; when a record is stored, a
\* load() resolves with the defaults overlaid by it, the same for every
\* repeated load, and the files are left as they are.
C22_LoadWritesIffNoRecord ==
  [][\A p \in Procs :
       (calls[p].pc = "read" /\ calls'[p].pc # "read" /\ calls'[p].op = calls[p].op)
         => /\ (calls'[p].phase = "load") <=> ~RecordStored
            /\ (RecordStored /\ calls[p].op = "load")
                 => /\ calls'[p].pc = "idle" /\ calls'[p].ret = "ok"
                    /\ calls'[p].value = Merge(DEFAULT_SETTINGS, BytesAt("final").obj)
                    /\ dirent' = dirent /\ inodes' = inodes]_vars

\* C23: while the storage does not fail, no loadSettings, saveSettings or
\* setSetting call rejects, whether or not calls overlap.
C23_NoCallRejects == \A p \in Procs : calls[p].ret # "err"

\* the tick loops that are scheduled: live display intervals, pending frames
LoopCount == Cardinality(iv.intervals) + Cardinality(rf.frames)

\* C24: at most one tick loop is scheduled, and only while the component is
\* mounted and the timer is running: none is left after a pause, a reset, an
\* expiry, the settings-changed handler or the unmount.
C24_OneLoopWhileRunning ==
  /\ LoopCount <= 1
  /\ LoopCount = 1 => (Mounted /\ IsRunning)

\* a timer was unmounted while it was running, some time after its start
C24_Witness ==
  /\ ~Mounted /\ LoopCount = 0
  /\ iv.isRunning \/ rf.isRunning
  /\ now > 0

\* the step in which SettingsModal.save goes on after its await on call p
SaveContinues(p) == calls[p].pc = "idle" /\ calls[p].form /\ ~calls'[p].form

\* C25: when the save of the settings form has failed, the timer's
\* isRunning, deadline, remainingMs and durationMs are what they were and no
\* notification has reached it; a notification reaches the timer only in the
\* continuation of a save that resolved, and it carries the record the store
\* returned: the timer is reset to that record's focusMinutes.
C25_NotifiedOnlyAfterSave ==
  [][/\ \A p \in Procs :
          SaveContinues(p)
            => IF calls[p].ret = "ok"
               THEN /\ cmd' = "saved"
                    /\ ~IsRunning' /\ EndAt' = Null
                    /\ FocusMinutes' = calls[p].value.focusMinutes
                    /\ RemainingMs' = calls[p].value.focusMinutes * MsPerMinute
               ELSE /\ cmd' = cmd
                    /\ IsRunning' = IsRunning /\ EndAt' = EndAt
                    /\ RemainingMs' = RemainingMs /\ DurationMs' = DurationMs
     /\ (cmd' = "saved" /\ cmd # "saved")
          => \E p \in Procs : SaveContinues(p) /\ calls[p].ret = "ok"]_vars

\* the save of the form has failed and its catch has run while the timer
\* was running
C25_Witness ==
  /\ \E p \in Procs : calls[p].op = "save" /\ calls[p].ret = "err" /\ ~calls[p].form
  /\ IsRunning /\ EndAt # Null

\* the component's tick has run since the clock last moved: a timer with a
\* deadline shows the time left to it
Ticked(c) ==
  c.endAtRef # Null => (c.endAtRef > now /\ c.remainingMs = c.endAtRef - now)

\* C26: given the same start, pause, reset and settings-changed events and
\* the same clock, the interval version and the animation-frame version
\* agree on isRunning and on remainingMs whenever the last command has
\* completed (nothing is left to render) and each has ticked.
C26_VersionsAgree ==
  (~RenderPending /\ Ticked(iv) /\ Ticked(rf))
    => (iv.isRunning = rf.isRunning /\ iv.remainingMs = rf.remainingMs)

====
